---- MODULE Spec2Model ----
(***************************************************************************)
(* Model of the SGX remote-attestation session manager                     *)
(* (bonedaddy/sgx_server).  The SessionManager (session table, RWMutex,    *)
(* NewSession, Msg1ToMsg2, Msg3ToMsg4) is translated from the Go source.   *)
(* The Session type it dispatches to (NewSession constructor, ProcessMsg1, *)
(* CreateMsg2, ProcessMsg3, CreateMsg4) is not among the source files and  *)
(* is modelled from section 4.3 of the specification.                      *)
(***************************************************************************)
EXTENDS Integers, Sequences, FiniteSets, TLC

(* ---------------------------- bounds ---------------------------------- *)
NumProcs == 2      \* concurrent request handlers (goroutines)
MaxId    == 2      \* session ids are drawn from 0..MaxId (uint64 in the code)
MaxObjs  == 2      \* Session objects ever allocated
NumClientKeys == 2 \* ephemeral scalars a client may use
NumServerKeys == 1 \* ephemeral scalars generateKey may return

Procs   == 1..NumProcs
Ids     == 0..MaxId
ObjRefs == 1..MaxObjs

(* ----------------------- values and sentinels ------------------------- *)
Absent == -1       \* id is not a key of the map
Nil    == 0        \* nil *Session pointer
NoKey  == <<>>     \* key material not yet set

(* toy prime-order group standing in for NIST P-256 *)
GroupP == 257
GroupG == 3

RECURSIVE PowMod(_, _, _)
PowMod(base, e, m) == IF e = 0 THEN 1 % m ELSE (base * PowMod(base, e - 1, m)) % m

ClientKeys == 1..NumClientKeys
PrivKeys == 1..NumServerKeys
PublicOf(d) == PowMod(GroupG, d, GroupP)
PubKeys == {PublicOf(d) : d \in ClientKeys}

(* CMAC (github.com/aead/cmac): an injective tag of key and message *)
CMAC(key, data) == <<"cmac", key, data>>
Encrypt(key, data) == <<"enc", key, data>>
ZeroKey == <<"zero">>

(* curve.ScalarMult(peer.X, peer.Y, mine.D): x coordinate of the shared point *)
ScalarMultX(mine, peer) == PowMod(peer, mine, GroupP)

(* big.Int.Bytes(): minimal big-endian bytes, empty for 0 *)
RECURSIVE Bytes(_)
Bytes(v) == IF v = 0 THEN <<>> ELSE Append(Bytes(v \div 256), v % 256)

CoordLen == 32

\* variant: the bytes are copied to the front of the array
PadLeft_Right(xb) ==
    [i \in 1..CoordLen |-> IF i <= Len(xb) THEN xb[i] ELSE 0]

(* var ret [32]byte; copy(ret[32-len(xb):], xb) *)
PadLeft(xb) ==
    [i \in 1..CoordLen |->
        IF i <= CoordLen - Len(xb) THEN 0 ELSE xb[i - (CoordLen - Len(xb))]]

RECURSIVE reverse(_)
reverse(b) == IF Len(b) = 0 THEN <<>> ELSE Append(reverse(Tail(b)), Head(b))

\* variant: multiplies the base point instead of the peer's point
exchange_BaseMult(mine, peer) == reverse(PadLeft(Bytes(ScalarMultX(mine, GroupG))))

exchange(mine, peer) == reverse(PadLeft(Bytes(ScalarMultX(mine, peer))))

kdk(mine, peer) == CMAC(ZeroKey, exchange(mine, peer))

(* math/big.Int for coordinates of any width: the magnitude as base-256
   digits, least significant first, with no zero at the top (0 is <<>>) *)
Norm(d) ==
    LET used == {i \in 1..Len(d) : d[i] # 0}
    IN IF used = {} THEN <<>>
       ELSE SubSeq(d, 1, CHOOSE i \in used : \A j \in used : j <= i)

BigBytes(n) == reverse(n)          \* Int.Bytes(): minimal big-endian bytes
SetBytes(b) == Norm(reverse(b))    \* Int.SetBytes(b): b is big-endian

\* variant: reverses the minimal encoding before it is copied into the array
marshalPublicKey_ReverseFirst(pub) ==
    <<PadLeft(reverse(BigBytes(pub.X))), PadLeft(reverse(BigBytes(pub.Y)))>>

(* returns x32, y32 *)
marshalPublicKey(pub) ==
    <<reverse(PadLeft(BigBytes(pub.X))), reverse(PadLeft(BigBytes(pub.Y)))>>

(* reverse(xb); x.SetBytes(xb); ...; reverse(xb) *)
unmarshalPublicKey(xb, yb) ==
    [X |-> SetBytes(reverse(xb)), Y |-> SetBytes(reverse(yb))]

\* variant: no zero byte between the label and the 0x80 byte
keyDerivationString_Short(label) == <<1>> \o label \o <<128, 0>>

(* out := make([]byte, 4+len(label)); copy(out[1:], label);
   out[0] = 1; out[len(out)-2] = 128 *)
keyDerivationString(label) ==
    [i \in 1..(4 + Len(label)) |->
        IF i = 1 THEN 1
        ELSE IF i = 4 + Len(label) - 1 THEN 128
        ELSE IF i - 1 <= Len(label) THEN label[i - 1]
        ELSE 0]

deriveLabelKeyFromBase(base, label) == CMAC(base, keyDerivationString(label))

(* returns base, key *)
deriveLabelKey(mine, peer, label) ==
    LET base == kdk(mine, peer)
    IN <<base, CMAC(base, keyDerivationString(label))>>

LabelSMK == <<83, 77, 75>>
LabelSK  == <<83, 75>>
LabelMK  == <<77, 75>>
LabelVK  == <<86, 75>>

(* --------------------------- configuration ---------------------------- *)
Mrenclaves        == {1}          \* accepted enclave measurements
ConfProdID        == 1
ConfProdSVN       == 1
AllowedAdvisories == {"A"}
Secret            == <<"secret">>
MaxSessions       == 1            \* Configuration.MaxSessions
Timeout           == 1            \* Configuration.Timeout, in minutes

VARIABLES
    sessions,   \* SessionManager.sessions : id -> Absent | Nil | object ref
    sLock,      \* SessionManager.sLock    : RWMutex
    heap,       \* allocated Session objects, indexed by reference
    pc, op, arg, sess, result, chk, stale,  \* per request handler
    calc        \* operands and results of the key and codec helpers

vars == <<sessions, sLock, heap, pc, op, arg, sess, result, chk, stale, calc>>


(* ------------------------------ results -------------------------------- *)
NoResult   == [kind |-> "none"]
ErrResult(e) == [kind |-> "error", err |-> e]
PanicResult  == [kind |-> "panic"]       \* nil pointer dereference

ErrNotFound   == "Session not found"
ErrSequencing == "sequencing"
ErrCrypto     == "crypto"
ErrAuthority  == "authority"
ErrRand       == "rand"
NoErr         == "nil"

(* --------------------------- Session (spec 4.3) ------------------------ *)
AwaitingMsg1 == "AwaitingMsg1"
AwaitingMsg3 == "AwaitingMsg3"
Established  == "Established"
Failed       == "Failed"

\* Session constructor: a fresh session in AwaitingMsg1.  expired (more than
\* Timeout minutes went by since the last activity) and the accept counters
\* are history fields used to state properties; no code reads them.
NewSessionObj(id) ==
    [id |-> id, state |-> AwaitingMsg1,
     ga |-> 0, b |-> 0, kdk |-> NoKey, smk |-> NoKey,
     sk |-> NoKey, mk |-> NoKey, vk |-> NoKey,
     expired |-> FALSE, m1Accepts |-> 0, m3Accepts |-> 0]

Msg1Inputs == [ga : PubKeys]

ProcessMsg1_NoStateCheck(s, msg1, b, cryptoOk) ==
    LET dk == deriveLabelKey(b, msg1.ga, LabelSMK)
    IN [err |-> NoErr,
        s |-> [s EXCEPT !.state = AwaitingMsg3,
                        !.ga = msg1.ga, !.b = b,
                        !.kdk = dk[1], !.smk = dk[2],
                        !.m1Accepts = @ + 1]]

\* ProcessMsg1: steps 1-4 of section 4.3.  b is the fresh ephemeral scalar,
\* cryptoOk tells whether the cryptographic steps succeeded.
ProcessMsg1(s, msg1, b, cryptoOk) ==
    IF s.state # AwaitingMsg1
    THEN [err |-> ErrSequencing, s |-> s]
    ELSE IF ~cryptoOk
    THEN [err |-> ErrCrypto, s |-> [s EXCEPT !.state = Failed]]
    ELSE LET dk == deriveLabelKey(b, msg1.ga, LabelSMK)
         IN [err |-> NoErr,
             s |-> [s EXCEPT !.state = AwaitingMsg3,
                             !.ga = msg1.ga, !.b = b,
                             !.kdk = dk[1], !.smk = dk[2],
                             !.m1Accepts = @ + 1]]

\* The payload A of message 2 and message 2 itself (steps 5-8).
PayloadA(s) == [gb |-> PublicOf(s.b), sig |-> <<"sig", s.ga, PublicOf(s.b)>>]

SigRLOutcomes == {"ok", "error", "timeout"}

CreateMsg2(s, sigrl) ==
    IF sigrl # "ok"
    THEN ErrResult(ErrAuthority)
    ELSE [kind |-> "msg2", a |-> PayloadA(s), cmac |-> CMAC(s.smk, PayloadA(s))]

\* Message 3 as sent by a client: M = (ga echo, quote) and a CMAC of M.
GoodQuote == [mrenclave |-> 1, prodID |-> ConfProdID, svn |-> ConfProdSVN]
Quotes == {GoodQuote,
           [GoodQuote EXCEPT !.svn = ConfProdSVN + 1],
           [GoodQuote EXCEPT !.mrenclave = 2],
           [GoodQuote EXCEPT !.prodID = ConfProdID + 1],
           [GoodQuote EXCEPT !.svn = ConfProdSVN - 1]}
MPayloads == [ga : PubKeys, quote : Quotes]
AllSMKs == {deriveLabelKey(b, g, LabelSMK)[2] : b \in PrivKeys, g \in PubKeys}
Msg3Inputs == {[m |-> m, cmac |-> CMAC(k, m)] : m \in MPayloads, k \in AllSMKs}

\* Verdict of the attestation authority for a quote.
Verdicts == [status : {"ok"}, trusted : {TRUE}, pseTrusted : {TRUE},
             advisories : {{}, {"A"}, {"B"}}]
            \cup [status : {"ok"}, trusted : BOOLEAN, pseTrusted : BOOLEAN,
                  advisories : {{}}]
            \cup [status : {"error", "timeout"}, trusted : {FALSE},
                  pseTrusted : {FALSE}, advisories : {{}}]

CmacOk(s, msg3)   == msg3.cmac = CMAC(s.smk, msg3.m)
GaOk(s, msg3)     == msg3.m.ga = s.ga
AuthorityOk(v)    == v.status = "ok" /\ v.trusted /\ v.pseTrusted
PolicyOk(msg3, v) == /\ msg3.m.quote.mrenclave \in Mrenclaves
                     /\ msg3.m.quote.prodID = ConfProdID
                     /\ msg3.m.quote.svn >= ConfProdSVN
                     /\ v.advisories \subseteq AllowedAdvisories
AllChecksOk(s, msg3, v) ==
    CmacOk(s, msg3) /\ GaOk(s, msg3) /\ AuthorityOk(v) /\ PolicyOk(msg3, v)

\* ProcessMsg3: steps 1-6 of section 4.3.  The authority is consulted only
\* when the two local checks passed; its failure or timeout is an explicit error.
ProcessMsg3(s, msg3, v) ==
    IF s.state # AwaitingMsg3
    THEN [err |-> ErrSequencing, s |-> s]
    ELSE IF CmacOk(s, msg3) /\ GaOk(s, msg3) /\ v.status # "ok"
    THEN [err |-> ErrAuthority,
          s |-> [s EXCEPT !.state = Failed, !.m3Accepts = @ + 1]]
    ELSE IF AllChecksOk(s, msg3, v)
    THEN [err |-> NoErr,
          s |-> [s EXCEPT !.state = Established, !.m3Accepts = @ + 1,
                          !.sk = deriveLabelKeyFromBase(s.kdk, LabelSK),
                          !.mk = deriveLabelKeyFromBase(s.kdk, LabelMK),
                          !.vk = deriveLabelKeyFromBase(s.kdk, LabelVK)]]
    ELSE [err |-> NoErr,
          s |-> [s EXCEPT !.state = Failed, !.m3Accepts = @ + 1]]

EmptySecret == <<>>

CreateMsg4(s) ==
    IF s.state = Established
    THEN [kind |-> "msg4", enclaveTrusted |-> TRUE, pseTrusted |-> TRUE,
          secret |-> Encrypt(s.sk, Secret),
          cmac |-> CMAC(s.mk, Encrypt(s.sk, Secret))]
    ELSE [kind |-> "msg4", enclaveTrusted |-> FALSE, pseTrusted |-> FALSE,
          secret |-> EmptySecret, cmac |-> CMAC(s.mk, EmptySecret)]


(* ------------------------- SessionManager ------------------------------ *)
NoCheck == "n/a"

\* sessions := make(map); sessions[0] = nil
NewSessionManager == [id \in Ids |-> IF id = 0 THEN Nil ELSE Absent]

\* session, ok := as.sessions[id]
\* variant: the entry of the neighbouring id is returned
Lookup_Aliased(tbl, id) ==
    LET k == IF id > 1 THEN id - 1 ELSE id
    IN [ok |-> tbl[k] # Absent, session |-> IF tbl[k] = Absent THEN Nil ELSE tbl[k]]

Lookup(tbl, id) ==
    [session |-> IF tbl[id] = Absent THEN Nil ELSE tbl[id], ok |-> tbl[id] # Absent]

\* as.sessions[id] = NewSession(...)
Store(tbl, id, ref) == [tbl EXCEPT ![id] = ref]

\* if !ok { return nil, errors.New("Session not found") }
NotFound(ok) == ~ok

Msg1Failed_Ignored(err) == FALSE
Msg3Failed_Ignored(err) == FALSE
Msg3Failed_Inverted(err) == err = NoErr
Msg3Failed_Always(err) == TRUE

\* if err != nil { return nil, err }
Msg1Failed(err) == err # NoErr
Msg3Failed(err) == err # NoErr

Allocating == {q \in Procs : pc[q] \notin {"idle", "done"} /\ op[q] = "NewSession"}

IsStale(s) == Timeout # -1 /\ s.expired
Touch(s) == [s EXCEPT !.expired = FALSE]

\* return from a handler with result r
Return(p, r) ==
    /\ pc' = [pc EXCEPT ![p] = "done"]
    /\ result' = [result EXCEPT ![p] = r]
    /\ UNCHANGED <<arg, sess>>

NoCalc == [kind |-> "none"]

Init ==
    /\ sessions = NewSessionManager
    /\ sLock = [readers |-> {}, writer |-> 0]
    /\ heap = <<>>
    /\ pc = [p \in Procs |-> "idle"]
    /\ op = [p \in Procs |-> "none"]
    /\ arg = [p \in Procs |-> 0]
    /\ sess = [p \in Procs |-> Nil]
    /\ result = [p \in Procs |-> NoResult]
    /\ chk = [p \in Procs |-> NoCheck]
    /\ stale = [p \in Procs |-> FALSE]
    /\ calc = NoCalc

\* NewSession, lines 48-57: the challenge is drawn from the random source
NewSession_Call(p) ==
    /\ pc[p] = "idle"
    /\ Len(heap) + Cardinality(Allocating) < MaxObjs
    /\ op' = [op EXCEPT ![p] = "NewSession"]
    /\ \E randOk \in BOOLEAN :
         IF ~randOk
         THEN Return(p, ErrResult(ErrRand))
         ELSE /\ pc' = [pc EXCEPT ![p] = "ns_gen"]
              /\ UNCHANGED <<arg, sess, result>>
    /\ UNCHANGED <<sessions, sLock, heap, chk, stale>>
    /\ UNCHANGED calc

\* NewSession, lines 58-66: draw a candidate id
NewSession_Gen(p) ==
    /\ pc[p] = "ns_gen"
    /\ \E randOk \in BOOLEAN, id \in Ids :
         IF ~randOk
         THEN Return(p, ErrResult(ErrRand))
         ELSE /\ pc' = [pc EXCEPT ![p] = "gs_rlock"]
              /\ arg' = [arg EXCEPT ![p] = id]
              /\ UNCHANGED <<sess, result>>
    /\ UNCHANGED <<sessions, sLock, heap, op, chk, stale>>
    /\ UNCHANGED calc

\* sync.RWMutex: Lock waits until no reader and no writer holds the mutex;
\* RUnlock gives up the caller's read hold, Unlock the write hold
CanLock_Always(l) == TRUE
CanLock(l) == l.writer = 0 /\ l.readers = {}

RUnlock_Skipped(l, p) == l
RUnlock(l, p) == [l EXCEPT !.readers = @ \ {p}]

Unlock_Skipped(l) == l
Unlock(l) == [l EXCEPT !.writer = 0]

\* getSession, line 41: as.sLock.RLock()
getSession_RLock(p) ==
    /\ pc[p] = "gs_rlock"
    /\ sLock.writer = 0
    /\ sLock' = [sLock EXCEPT !.readers = @ \cup {p}]
    /\ pc' = [pc EXCEPT ![p] = "gs_read"]
    /\ UNCHANGED <<sessions, heap, op, arg, sess, result, chk, stale>>
    /\ UNCHANGED calc

\* getSession, lines 42-44 and the caller's test of ok
getSession_Read(p) ==
    /\ pc[p] = "gs_read"
    /\ sLock' = RUnlock(sLock, p)
    /\ LET r == Lookup(sessions, arg[p]) IN
         IF op[p] = "NewSession"
         THEN /\ pc' = [pc EXCEPT ![p] = IF ~r.ok THEN "ns_lock" ELSE "ns_gen"]
              /\ UNCHANGED <<arg, sess, result, stale>>
         ELSE IF NotFound(r.ok)
         THEN /\ Return(p, ErrResult(ErrNotFound))
              /\ UNCHANGED stale
         ELSE /\ pc' = [pc EXCEPT ![p] = "process"]
              /\ sess' = [sess EXCEPT ![p] = r.session]
              /\ stale' = [stale EXCEPT ![p] =
                              r.session # Nil /\ IsStale(heap[r.session])]
              /\ UNCHANGED <<arg, result>>
    /\ UNCHANGED <<sessions, heap, op, chk>>
    /\ UNCHANGED calc

\* NewSession, line 73: as.sLock.Lock()
NewSession_Lock(p) ==
    /\ pc[p] = "ns_lock"
    /\ CanLock(sLock)
    /\ sLock' = [sLock EXCEPT !.writer = p]
    /\ pc' = [pc EXCEPT ![p] = "ns_insert"]
    /\ UNCHANGED <<sessions, heap, op, arg, sess, result, chk, stale>>
    /\ UNCHANGED calc

\* NewSession, lines 74-80: insert, unlock, return the challenge
NewSession_Insert(p) ==
    /\ pc[p] = "ns_insert"
    /\ heap' = Append(heap, NewSessionObj(arg[p]))
    /\ sessions' = Store(sessions, arg[p], Len(heap) + 1)
    /\ sLock' = Unlock(sLock)
    /\ Return(p, [kind |-> "challenge", sessionId |-> arg[p]])
    /\ UNCHANGED <<op, chk, stale>>
    /\ UNCHANGED calc

\* Msg1ToMsg2, line 84: entry
Msg1ToMsg2_Call(p) ==
    /\ pc[p] = "idle"
    /\ \E id \in Ids : arg' = [arg EXCEPT ![p] = id]
    /\ op' = [op EXCEPT ![p] = "Msg1ToMsg2"]
    /\ pc' = [pc EXCEPT ![p] = "gs_rlock"]
    /\ UNCHANGED <<sessions, sLock, heap, sess, result, chk, stale>>
    /\ UNCHANGED calc

\* Msg1ToMsg2, lines 89-92: session.ProcessMsg1(msg1)
Msg1ToMsg2_Process(p) ==
    /\ pc[p] = "process" /\ op[p] = "Msg1ToMsg2"
    /\ IF sess[p] = Nil
       THEN /\ Return(p, PanicResult)
            /\ UNCHANGED heap
       ELSE \E msg1 \in Msg1Inputs, b \in PrivKeys, cryptoOk \in BOOLEAN :
              LET r == ProcessMsg1(heap[sess[p]], msg1, b, cryptoOk) IN
                /\ heap' = [heap EXCEPT ![sess[p]] = Touch(r.s)]
                /\ IF Msg1Failed(r.err)
                   THEN Return(p, ErrResult(r.err))
                   ELSE /\ pc' = [pc EXCEPT ![p] = "create"]
                        /\ UNCHANGED <<arg, sess, result>>
    /\ UNCHANGED <<sessions, sLock, op, chk, stale>>
    /\ UNCHANGED calc

\* Msg1ToMsg2, line 93: return session.CreateMsg2()
Msg1ToMsg2_Create(p) ==
    /\ pc[p] = "create" /\ op[p] = "Msg1ToMsg2"
    /\ \E sigrl \in SigRLOutcomes : Return(p, CreateMsg2(heap[sess[p]], sigrl))
    /\ heap' = [heap EXCEPT ![sess[p]] = Touch(@)]
    /\ UNCHANGED <<sessions, sLock, op, chk, stale>>
    /\ UNCHANGED calc

\* Msg3ToMsg4, line 97: entry
Msg3ToMsg4_Call(p) ==
    /\ pc[p] = "idle"
    /\ \E id \in Ids : arg' = [arg EXCEPT ![p] = id]
    /\ op' = [op EXCEPT ![p] = "Msg3ToMsg4"]
    /\ pc' = [pc EXCEPT ![p] = "gs_rlock"]
    /\ UNCHANGED <<sessions, sLock, heap, sess, result, chk, stale>>
    /\ UNCHANGED calc

\* history: the first check a message 3 fails on a session awaiting it
Checks(s, msg3, v) ==
    IF s.state # AwaitingMsg3 THEN "rejected"
    ELSE IF msg3.cmac # CMAC(s.smk, msg3.m) THEN "cmac"
    ELSE IF msg3.m.ga # s.ga THEN "ga"
    ELSE IF v.status # "ok" THEN v.status
    ELSE IF ~v.trusted \/ ~v.pseTrusted THEN "untrusted"
    ELSE IF \/ msg3.m.quote.mrenclave \notin Mrenclaves
            \/ msg3.m.quote.prodID # ConfProdID
            \/ msg3.m.quote.svn < ConfProdSVN
            \/ v.advisories \ AllowedAdvisories # {} THEN "policy"
    ELSE "passed"

\* Msg3ToMsg4, lines 102-105: session.ProcessMsg3(msg3)
Msg3ToMsg4_Process(p) ==
    /\ pc[p] = "process" /\ op[p] = "Msg3ToMsg4"
    /\ IF sess[p] = Nil
       THEN /\ Return(p, PanicResult)
            /\ UNCHANGED <<heap, chk>>
       ELSE \E msg3 \in Msg3Inputs, v \in Verdicts :
              LET r == ProcessMsg3(heap[sess[p]], msg3, v) IN
                /\ heap' = [heap EXCEPT ![sess[p]] = Touch(r.s)]
                /\ chk' = [chk EXCEPT ![p] = Checks(heap[sess[p]], msg3, v)]
                /\ IF Msg3Failed(r.err)
                   THEN Return(p, ErrResult(r.err))
                   ELSE /\ pc' = [pc EXCEPT ![p] = "create"]
                        /\ UNCHANGED <<arg, sess, result>>
    /\ UNCHANGED <<sessions, sLock, op, stale>>
    /\ UNCHANGED calc

\* Msg3ToMsg4, line 106: return session.CreateMsg4()
Msg3ToMsg4_Create(p) ==
    /\ pc[p] = "create" /\ op[p] = "Msg3ToMsg4"
    /\ Return(p, CreateMsg4(heap[sess[p]]))
    /\ heap' = [heap EXCEPT ![sess[p]] = Touch(@)]
    /\ UNCHANGED <<sessions, sLock, op, chk, stale>>
    /\ UNCHANGED calc

\* the response reaches the caller; the handler is free for the next request
Deliver(p) ==
    /\ pc[p] = "done"
    /\ pc' = [pc EXCEPT ![p] = "idle"]
    /\ op' = [op EXCEPT ![p] = "none"]
    /\ result' = [result EXCEPT ![p] = NoResult]
    /\ chk' = [chk EXCEPT ![p] = NoCheck]
    /\ stale' = [stale EXCEPT ![p] = FALSE]
    /\ arg' = [arg EXCEPT ![p] = 0]
    /\ sess' = [sess EXCEPT ![p] = Nil]
    /\ UNCHANGED <<sessions, sLock, heap>>
    /\ UNCHANGED calc

\* more than Timeout minutes pass without any activity on session o
Expire(o) ==
    /\ Timeout # -1
    /\ o \in 1..Len(heap)
    /\ ~heap[o].expired
    /\ \A p \in Procs : sess[p] # o
    /\ heap' = [heap EXCEPT ![o].expired = TRUE]
    /\ UNCHANGED <<sessions, sLock, pc, op, arg, sess, result, chk, stale>>
    /\ UNCHANGED calc

Handler(p) ==
    \/ NewSession_Call(p)
    \/ NewSession_Gen(p)
    \/ getSession_RLock(p)
    \/ getSession_Read(p)
    \/ NewSession_Lock(p)
    \/ NewSession_Insert(p)
    \/ Msg1ToMsg2_Call(p)
    \/ Msg1ToMsg2_Process(p)
    \/ Msg1ToMsg2_Create(p)
    \/ Msg3ToMsg4_Call(p)
    \/ Msg3ToMsg4_Process(p)
    \/ Msg3ToMsg4_Create(p)
    \/ Deliver(p)

Next == \E p \in Procs : Handler(p)

Spec == Init /\ [][Next]_vars

\* Scheduling: a goroutine that can run is eventually run; a goroutine
\* waiting for the RWMutex obtains it if it becomes free again and again;
\* the random source does not avoid the free ids for ever.
Running(p) ==
    \/ NewSession_Gen(p)
    \/ getSession_Read(p)
    \/ NewSession_Insert(p)
    \/ Msg1ToMsg2_Process(p)
    \/ Msg1ToMsg2_Create(p)
    \/ Msg3ToMsg4_Process(p)
    \/ Msg3ToMsg4_Create(p)

NewSession_GenFree(p) == NewSession_Gen(p) /\ sessions[arg'[p]] = Absent

Fairness ==
    \A p \in Procs :
        /\ WF_vars(Running(p))
        /\ SF_vars(getSession_RLock(p))
        /\ SF_vars(NewSession_Lock(p))
        /\ SF_vars(NewSession_GenFree(p))

\* handler 1 serves every kind of request while the other handlers serve
\* NewSession requests
Creator(p) ==
    \/ NewSession_Call(p)
    \/ NewSession_Gen(p)
    \/ getSession_RLock(p)
    \/ getSession_Read(p)
    \/ NewSession_Lock(p)
    \/ NewSession_Insert(p)
    \/ Deliver(p)

NextFair ==
    \/ Handler(1)
    \/ \E p \in Procs \ {1} : Creator(p)

SpecFair == Init /\ [][NextFair]_vars /\ Fairness

\* requests served one after the other while time passes
NextTimed ==
    \/ Handler(1)
    \/ \E o \in ObjRefs : Expire(o)

SpecTimed == Init /\ [][NextTimed]_vars

(* ------------------ key and codec helpers on their own ----------------- *)
MaxScalar   == 16    \* private scalars are drawn from 1..MaxScalar
MaxLabelLen == 3     \* labels of 0..MaxLabelLen bytes

Scalars    == 1..MaxScalar
LabelBytes == {0, 75, 83, 128}

RECURSIVE SeqsUpTo(_, _)
SeqsUpTo(S, n) ==
    IF n = 0 THEN {<<>>}
    ELSE LET shorter == SeqsUpTo(S, n - 1)
         IN shorter \cup {Append(q, x) : q \in shorter, x \in S}

Labels == SeqsUpTo(LabelBytes, MaxLabelLen)

\* coordinates of every byte length 0..32: all bytes 0xff, a single 1 at the
\* top above zero bytes, and bytes that count up from the low end
Patterns == {"max", "pow", "ramp"}
CoordOf(n, pat) ==
    [i \in 1..n |->
        IF pat = "max" THEN 255
        ELSE IF pat = "pow" THEN (IF i = n THEN 1 ELSE 0)
        ELSE i]
CoordValues == {CoordOf(n, pat) : n \in 0..CoordLen, pat \in Patterns}
\* the other coordinate of a pair: zero, one byte short, full width
CoordEdges == {CoordOf(n, "ramp") : n \in {0, CoordLen - 1, CoordLen}}
CoordPairs == (CoordValues \X CoordEdges) \cup (CoordEdges \X CoordValues)

mgrVars == <<sessions, sLock, heap, pc, op, arg, sess, result, chk, stale>>

InitPure ==
    /\ sessions = NewSessionManager
    /\ sLock = [readers |-> {}, writer |-> 0]
    /\ heap = <<>>
    /\ pc = [p \in Procs |-> "idle"]
    /\ op = [p \in Procs |-> "none"]
    /\ arg = [p \in Procs |-> 0]
    /\ sess = [p \in Procs |-> Nil]
    /\ result = [p \in Procs |-> NoResult]
    /\ chk = [p \in Procs |-> NoCheck]
    /\ stale = [p \in Procs |-> FALSE]
    /\ \/ \E xy \in CoordPairs :
            calc = [kind |-> "coords", x |-> xy[1], y |-> xy[2]]
       \/ \E a \in Scalars, b \in Scalars :
            calc = [kind |-> "keys", a |-> a, b |-> b]
       \/ \E a \in PrivKeys, b \in ClientKeys, l \in Labels :
            calc = [kind |-> "label", a |-> a, b |-> b, label |-> l]

Marshal ==
    /\ calc.kind = "coords"
    /\ LET out == marshalPublicKey([X |-> calc.x, Y |-> calc.y])
       IN calc' = [kind |-> "wire", x |-> calc.x, y |-> calc.y,
                   xb |-> out[1], yb |-> out[2]]
    /\ UNCHANGED mgrVars

Unmarshal ==
    /\ calc.kind = "wire"
    /\ calc' = [kind |-> "pub", x |-> calc.x, y |-> calc.y,
                pub |-> unmarshalPublicKey(calc.xb, calc.yb)]
    /\ UNCHANGED mgrVars

\* both parties run the exchange, each with its own scalar and the other's
\* public key
Exchange ==
    /\ calc.kind = "keys"
    /\ calc' = [kind |-> "shared", a |-> calc.a, b |-> calc.b,
                ab |-> exchange(calc.a, PublicOf(calc.b)),
                ba |-> exchange(calc.b, PublicOf(calc.a))]
    /\ UNCHANGED mgrVars

Kdk ==
    /\ calc.kind = "shared"
    /\ calc' = [kind |-> "kdk", a |-> calc.a, b |-> calc.b,
                kab |-> kdk(calc.a, PublicOf(calc.b)),
                kba |-> kdk(calc.b, PublicOf(calc.a))]
    /\ UNCHANGED mgrVars

DeriveLabelKey ==
    /\ calc.kind = "label"
    /\ LET out == deriveLabelKey(calc.a, PublicOf(calc.b), calc.label)
       IN calc' = [kind |-> "derived", label |-> calc.label,
                   kds |-> keyDerivationString(calc.label),
                   base |-> out[1], key |-> out[2]]
    /\ UNCHANGED mgrVars

\* the key is derived again from the KDK that was kept
DeriveLabelKeyFromBase ==
    /\ calc.kind = "derived"
    /\ calc' = [kind |-> "rederived", label |-> calc.label, kds |-> calc.kds,
                base |-> calc.base, key |-> calc.key,
                again |-> deriveLabelKeyFromBase(calc.base, calc.label)]
    /\ UNCHANGED mgrVars

NextPure ==
    \/ Marshal
    \/ Unmarshal
    \/ Exchange
    \/ Kdk
    \/ DeriveLabelKey
    \/ DeriveLabelKeyFromBase

SpecPure == InitPure /\ [][NextPure]_vars


(* ------------------------------ properties ----------------------------- *)
Objs == 1..Len(heap)
Dispatching(p) == op[p] \in {"Msg1ToMsg2", "Msg3ToMsg4"}
LiveIds == {id \in Ids : sessions[id] \in ObjRefs}
CreatedIds == {heap[o].id : o \in Objs}
KeysOf(s) == <<s.ga, s.b, s.kdk, s.smk>>

\* C1: the ids handed out by NewSession are pairwise distinct.  Sessions are
\* never removed from the table, so every Session ever inserted is live, and two
\* Sessions with the same id mean that the second insert replaced the live
\* entry of the first.
C1_DistinctIds ==
    \A o1, o2 \in Objs : o1 # o2 => heap[o1].id # heap[o2].id

\* C2: a Msg4 carries a secret, or reports the enclave trusted, only when the
\* message 3 of that very call passed every check of ProcessMsg3 on a session
\* awaiting it; a call whose message failed a check, or whose authority call
\* failed or timed out, ends with an error or with an untrusted, empty Msg4.
C2_SecretOnlyIfAllChecksPassed ==
    \A p \in Procs :
        /\ (/\ result[p].kind = "msg4"
            /\ (result[p].secret # EmptySecret \/ result[p].enclaveTrusted
                \/ result[p].pseTrusted))
           => /\ chk[p] = "passed"
              /\ heap[sess[p]].state = Established
        /\ (pc[p] = "done" /\ op[p] = "Msg3ToMsg4" /\ chk[p] # "passed")
           => \/ result[p].kind \in {"error", "panic"}
              \/ /\ result[p].kind = "msg4"
                 /\ result[p].secret = EmptySecret
                 /\ ~result[p].enclaveTrusted
        /\ (chk[p] \in {"error", "timeout"}) => result[p].kind \in {"none", "error"}

C2_Witness ==
    \E p, q \in Procs :
        /\ result[p].kind = "msg4" /\ result[p].secret # EmptySecret
        /\ chk[p] = "passed"
        /\ pc[q] = "done" /\ op[q] = "Msg3ToMsg4" /\ chk[q] = "rejected"
        /\ sess[q] = sess[p]

\* C3: every Session only moves forward along AwaitingMsg1 -> AwaitingMsg3 ->
\* Established or Failed: no step lowers its state or leaves a terminal state,
\* ProcessMsg1 and ProcessMsg3 are each accepted at most once, and ProcessMsg3
\* is accepted only after ProcessMsg1 was.
Rank(st) == CASE st = AwaitingMsg1 -> 0 [] st = AwaitingMsg3 -> 1 [] OTHER -> 2

C3_ForwardOnly ==
    [][\A o \in Objs :
         /\ Rank(heap'[o].state) >= Rank(heap[o].state)
         /\ heap[o].state \in {Established, Failed} => heap'[o].state = heap[o].state
         /\ heap'[o].m1Accepts <= 1
         /\ heap'[o].m3Accepts <= 1
         /\ heap'[o].m3Accepts = 1 => heap[o].m1Accepts = 1
         /\ heap'[o].state = Established => heap'[o].m3Accepts = 1
         /\ heap'[o].state = AwaitingMsg3 => heap'[o].m1Accepts = 1]_vars

C3_Witness ==
    \E o \in Objs, p \in Procs :
        /\ heap[o].state = Established
        /\ sess[p] = o /\ pc[p] = "done"
        /\ result[p] = ErrResult(ErrSequencing)

\* C4: a message delivered out of order fails with the sequencing error and
\* changes nothing in the session: a ProcessMsg1 on a session that is past
\* AwaitingMsg1 leaves its peer key, ephemeral key, KDK and SMK as they were,
\* and a ProcessMsg3 on a session still in AwaitingMsg1 leaves it there.
OutOfOrder(p) ==
    \/ op[p] = "Msg1ToMsg2" /\ heap[sess[p]].state # AwaitingMsg1
    \/ op[p] = "Msg3ToMsg4" /\ heap[sess[p]].state = AwaitingMsg1

C4_OutOfOrderRejected ==
    [][\A p \in Procs :
         (/\ pc[p] = "process" /\ pc'[p] # "process"
          /\ sess[p] # Nil /\ OutOfOrder(p))
         => /\ result'[p] = ErrResult(ErrSequencing)
            /\ pc'[p] = "done"
            /\ KeysOf(heap'[sess[p]]) = KeysOf(heap[sess[p]])
            /\ heap'[sess[p]].state = heap[sess[p]].state]_vars

C4_Witness ==
    \E p, q \in Procs :
        /\ pc[p] = "done" /\ op[p] = "Msg1ToMsg2"
        /\ result[p] = ErrResult(ErrSequencing)
        /\ heap[sess[p]].state = AwaitingMsg3
        /\ pc[q] = "done" /\ op[q] = "Msg3ToMsg4"
        /\ result[q] = ErrResult(ErrSequencing)
        /\ heap[sess[q]].state = AwaitingMsg1

\* C5: a Msg1ToMsg2 or Msg3ToMsg4 for an id that NewSession never created
\* gets past the lookup for no id (0 included): it ends with "Session not
\* found" and never reaches a Session transition.
C5_UnknownIdNotFound ==
    \A p \in Procs :
        (Dispatching(p) /\ arg[p] \notin CreatedIds)
        => /\ pc[p] \notin {"process", "create"}
           /\ pc[p] = "done" => result[p] = ErrResult(ErrNotFound)

\* C6: transitions of one session id are serialized: at most one ProcessMsg1
\* is ever accepted for an id, and once a Msg1ToMsg2 call had its ProcessMsg1
\* accepted no other call's transition takes effect on that session before
\* the call's CreateMsg2 (the session is still in AwaitingMsg3, with the keys
\* the call wrote, when CreateMsg2 runs).
Sum2(f, S) ==
    LET RECURSIVE Acc(_)
        Acc(T) == IF T = {} THEN 0
                  ELSE LET x == CHOOSE y \in T : TRUE IN f[x] + Acc(T \ {x})
    IN Acc(S)

M1AcceptsOfId(id) ==
    Sum2([o \in Objs |-> heap[o].m1Accepts], {o \in Objs : heap[o].id = id})

C6_TransitionsSerialized ==
    /\ \A id \in Ids : M1AcceptsOfId(id) <= 1
    /\ \A p \in Procs :
         (pc[p] = "create" /\ op[p] = "Msg1ToMsg2")
         => heap[sess[p]].state = AwaitingMsg3

\* C7: a message 3 that passes every check on a session that accepted a
\* message 1 yields a Msg4 with enclaveTrusted and a non-empty secret, and the
\* session ends in Established.
C7_TrustedGetsSecret ==
    \A p \in Procs :
        (op[p] = "Msg3ToMsg4" /\ chk[p] = "passed")
        => /\ heap[sess[p]].state = Established
           /\ heap[sess[p]].m1Accepts = 1
           /\ pc[p] \in {"create", "done"}
           /\ pc[p] = "done"
              => /\ result[p].kind = "msg4"
                 /\ result[p].enclaveTrusted
                 /\ result[p].secret = Encrypt(deriveLabelKeyFromBase(
                                          heap[sess[p]].kdk, LabelSK), Secret)
                 /\ result[p].secret # EmptySecret

C7_Witness ==
    \E p \in Procs :
        /\ pc[p] = "done" /\ op[p] = "Msg3ToMsg4" /\ chk[p] = "passed"
        /\ result[p].kind = "msg4" /\ result[p].enclaveTrusted

C9_AtMostMaxSessions ==
    MaxSessions # -1 => Cardinality(LiveIds) <= MaxSessions

\* C10: with Timeout other than -1, a session left without activity for longer
\* than Timeout is not found by a later Msg1ToMsg2 or Msg3ToMsg4: no lookup of
\* a dispatch returns a session that has expired.
C10_ExpiredNotDispatchable ==
    \A p \in Procs : Dispatching(p) => ~stale[p]


\* C11: once Msg3ToMsg4 has completed an attestation attempt (ProcessMsg3 was
\* accepted and the session is Established or Failed), the session is no
\* longer in the table under its id.
C11_DestroyedOnCompletion ==
    \A p \in Procs :
        (/\ pc[p] = "done" /\ op[p] = "Msg3ToMsg4"
         /\ chk[p] \notin {NoCheck, "rejected"})
        => sessions[arg[p]] # sess[p]

\* C12: a NewSession that inserts while the table holds MaxSessions live
\* sessions succeeds and removes a session to make room, and the one it
\* removes is the oldest: every session that stays was created after it.
\* (Object references grow with creation time.)
C12_EvictsOldest ==
    [][\A p \in Procs :
         (/\ pc[p] = "ns_insert" /\ pc'[p] = "done"
          /\ MaxSessions # -1 /\ Cardinality(LiveIds) >= MaxSessions)
         => /\ result'[p].kind = "challenge"
            /\ \E id \in LiveIds :
                 /\ sessions'[id] # sessions[id]
                 /\ \A k \in LiveIds \ {id} :
                      sessions'[k] = sessions[k] => sessions[k] > sessions[id]]_vars


(* floor(n / 256^i) and n mod 256 on a big.Int *)
Floor256(n, i) == SubSeq(n, i + 1, Len(n))
Mod256(n) == IF n = <<>> THEN 0 ELSE n[1]

(* floor(v / 256^i) mod 256 on an integer *)
RECURSIVE ByteAt(_, _)
ByteAt(v, i) == IF i = 0 THEN v % 256 ELSE ByteAt(v \div 256, i - 1)

\* C13: unmarshalPublicKey applied to the output of marshalPublicKey gives a
\* public key whose X and Y are the coordinates that were marshalled, for
\* coordinates of every byte length from 0 to 32.
C13_CodecRoundTrip ==
    calc.kind = "pub" => (calc.pub.X = calc.x /\ calc.pub.Y = calc.y)

C13_Witness ==
    /\ calc.kind = "pub"
    /\ Len(calc.x) \in 1..(CoordLen - 1)
    /\ Len(calc.y) = CoordLen
    /\ calc.pub.X = calc.x

\* C14: the two parties' exchange results are equal 32-byte strings, and so
\* are the two KDKs.
C14_ExchangeSymmetric ==
    /\ calc.kind = "shared" => (calc.ab = calc.ba /\ Len(calc.ab) = CoordLen)
    /\ calc.kind = "kdk" => calc.kab = calc.kba

C14_Witness ==
    /\ calc.kind = "kdk"
    /\ calc.a # calc.b
    /\ PublicOf(calc.a) # PublicOf(calc.b)
    /\ calc.kab = calc.kba

\* C15: each marshalled coordinate and the exchange result is 32 bytes long
\* and its byte i is floor(v / 256^i) mod 256, v being the coordinate or the
\* shared x coordinate; the padding zeros are at the high indices.
C15_LittleEndianFixedWidth ==
    /\ calc.kind = "wire" =>
         /\ Len(calc.xb) = CoordLen /\ Len(calc.yb) = CoordLen
         /\ \A i \in 0..(CoordLen - 1) :
              /\ calc.xb[i + 1] = Mod256(Floor256(calc.x, i))
              /\ calc.yb[i + 1] = Mod256(Floor256(calc.y, i))
    /\ calc.kind = "shared" =>
         /\ Len(calc.ab) = CoordLen
         /\ \A i \in 0..(CoordLen - 1) :
              calc.ab[i + 1] = ByteAt(ScalarMultX(calc.a, PublicOf(calc.b)), i)

C15_Witness ==
    /\ calc.kind = "wire"
    /\ Len(calc.x) \in 1..(CoordLen - 1)
    /\ calc.xb[1] = 255
    /\ calc.xb[CoordLen] = 0

\* C16: keyDerivationString(label) is 4 + len(label) bytes: 0x01, the label,
\* a byte that is 0x00, then 0x80 and 0x00; and the key deriveLabelKey returns
\* with the KDK equals the key deriveLabelKeyFromBase computes from that KDK.
C16_DerivationString ==
    calc.kind = "rederived" =>
        /\ Len(calc.kds) = 4 + Len(calc.label)
        /\ calc.kds[1] = 1
        /\ \A i \in 1..Len(calc.label) : calc.kds[i + 1] = calc.label[i]
        /\ calc.kds[Len(calc.kds) - 1] = 128
        /\ calc.kds[Len(calc.kds)] = 0
        /\ calc.again = calc.key

C16_Witness ==
    /\ calc.kind = "rederived"
    /\ calc.label = <<>>
    /\ calc.kds = <<1, 0, 128, 0>>
    /\ calc.again = calc.key


\* C17: the handler that writes the table holds the exclusive lock and the
\* handler that reads it holds the shared lock, so a write never overlaps a
\* read or another write.
C17_TableAccessLocked ==
    /\ \A p \in Procs :
         /\ pc[p] = "ns_insert" => (sLock.writer = p /\ sLock.readers = {})
         /\ pc[p] = "gs_read" => (p \in sLock.readers /\ sLock.writer = 0)
    /\ \A p, q \in Procs :
         (p # q /\ pc[p] = "ns_insert") => pc[q] \notin {"ns_insert", "gs_read"}

C17_Witness ==
    \E p, q \in Procs :
        /\ pc[p] = "ns_insert" /\ sLock.writer = p
        /\ pc[q] = "gs_rlock"

\* C18: a handler that is generating the challenge or a candidate id, or is
\* inside a Session transition, holds the lock neither shared nor exclusive;
\* the lock is held only between a lookup's RLock and RUnlock and between
\* Lock and Unlock around the insert.
C18_NoLockOutsideTableAccess ==
    /\ \A p \in Procs :
         pc[p] \in {"idle", "ns_gen", "process", "create", "done"}
         => (p \notin sLock.readers /\ sLock.writer # p)
    /\ \A p \in sLock.readers : pc[p] = "gs_read"
    /\ sLock.writer # 0 => pc[sLock.writer] = "ns_insert"

C18_Witness ==
    \E p, q \in Procs :
        /\ pc[p] = "process" /\ sess[p] # Nil
        /\ pc[q] = "gs_read" /\ q \in sLock.readers
        /\ arg[q] # arg[p]

\* C19: a step of Msg1ToMsg2 or Msg3ToMsg4 leaves the table as it is, and a
\* session object changes only in a transition of a handler that was
\* dispatched to it with the object's own id.
C19_Isolated ==
    [][/\ \A p \in Procs :
            (op[p] \in {"Msg1ToMsg2", "Msg3ToMsg4"} /\ pc'[p] # pc[p])
            => (sessions' = sessions /\ Len(heap') = Len(heap))
       /\ \A o \in Objs :
            heap'[o] # heap[o]
            => \E p \in Procs :
                 /\ op[p] \in {"Msg1ToMsg2", "Msg3ToMsg4"}
                 /\ pc[p] \in {"process", "create"} /\ pc'[p] # pc[p]
                 /\ sess[p] = o
                 /\ heap[o].id = arg[p]]_vars

C19_Witness ==
    \E a, b \in Objs :
        /\ heap[a].id # heap[b].id
        /\ sessions[heap[a].id] = a /\ sessions[heap[b].id] = b
        /\ heap[a].state = AwaitingMsg3 /\ heap[a].smk # NoKey
        /\ heap[b].state = AwaitingMsg1 /\ heap[b].smk = NoKey


NoFreeId == \A id \in Ids : sessions[id] # Absent

\* C20: a handler that holds the lock is at the step that releases it, and
\* every call that has been entered returns; for NewSession, unless every id
\* is in the table.
C20_CallsReturn ==
    \A p \in Procs :
        /\ (sLock.writer = p \/ p \in sLock.readers)
             ~> (sLock.writer # p /\ p \notin sLock.readers)
        /\ (pc[p] \notin {"idle", "done"}) ~> (pc[p] = "done" \/ NoFreeId)

C20_Witness ==
    \E p, q \in Procs :
        /\ pc[p] = "ns_lock" /\ q \in sLock.readers
        /\ pc[q] = "gs_read" /\ op[q] = "NewSession" /\ arg[q] = arg[p]

====
